---- MODULE Spec2Model ----
(***************************************************************************)
(* The Morphlink autopilot (AutopilotSystem, autopilot.js) together with   *)
(* the two collaborators it drives: the monolith's redirector flag and the *)
(* redirector microservice processes it spawns.                            *)
(*                                                                         *)
(* checkLoadAndScale is an async function: every `await` is a suspension   *)
(* point at which timer callbacks, child-process events, other ticks and   *)
(* start()/stop() calls of the embedding program may run.  One action of   *)
(* the model is one run-to-completion segment of JavaScript between two    *)
(* suspension points.  Ticks carry no local state that influences control  *)
(* (currentLoad and currentStatus are only logged after the decision), so  *)
(* the ticks in flight are kept as a count per suspension point.           *)
(***************************************************************************)
EXTENDS Integers, FiniteSets

\* ---------------------------------------------------------------- constants
LOAD_THRESHOLD == 20
maxConsecutiveErrors == 3

\* ------------------------------------------------------------------- bounds
\* ticks (checkLoadAndScale invocations) that may be in flight together
MaxTicks == 2
\* child processes that exist, or are still referred to, at the same time
MaxProcs == 2

\* spawn or stop calls of one run of samples that are told apart
MaxCalls == 2

\* redirects counted by the monolith's load counter between two resets
MaxLoad == 4

Procs == 1 .. MaxProcs
\* the sampled load values: just below, at and just above the threshold
Rates == {LOAD_THRESHOLD - 1, LOAD_THRESHOLD, LOAD_THRESHOLD + 1}

\* suspension points of a tick
AwaitPoints == {"health", "starting", "upsleep", "uppost", "downpost", "downsleep"}
\* the suspension points that lie inside a scale-up or scale-down handoff
HandoffPoints == AwaitPoints \ {"health"}
\* the ways a handoff is aborted: the spawn fails, the start wait finds no
\* handle, the 'inactive' command fails, the 'active' command fails
Aborts == {"none", "spawn", "startwait", "uppost", "downpost"}

VARIABLES
  isMonitoring,        \* this.isMonitoring
  pollInterval,        \* this.pollInterval is armed (non-null)
  consecutiveErrors,   \* this.consecutiveErrors
  microserviceProcess, \* this.microserviceProcess: 0 is null, else a process
  redirectorStatus,    \* the monolith's flag: "active" | "inactive"
  proc,                \* state of each child process
  killTimers,          \* processes whose stopMicroservice() timer is pending
  suspended,           \* number of ticks suspended at each await point
  stopDuring,          \* history: stop() ran while a handoff was in progress
  aborted,             \* history: the handoff the last step aborted, if any
  malformed,           \* history: the last step handled a malformed health reply
  run,                 \* history: the run of samples the last sample belongs to
  fresh,               \* history: the run began in the state its scenario starts from
  samples,             \* history: samples handled in the run (counted up to 2)
  firstAction,         \* history: what the first sample of the run decided
  laterActed,          \* history: a later sample of the run decided an action
  calls,               \* history: spawn calls (high run) or scale-down stop
                       \* calls (low run) in the run (counted up to MaxCalls)
  atThreshold,         \* history: every sample of the run equalled LOAD_THRESHOLD
  sustained,           \* the load source: "none", or the side of the threshold
                       \* on which every sample from now on lies
  loadCounter,         \* database.loadCounter of the monolith
  healthReply,         \* the last reply of GET /api/health
  statusReply,         \* the last reply of POST /api/internal/set-redirector-status
  statusReport         \* the value a getStatus() call is returning, if any

vars == <<isMonitoring, pollInterval, consecutiveErrors, microserviceProcess,
          redirectorStatus, proc, killTimers, suspended, stopDuring,
          aborted, malformed, run, fresh, samples, firstAction, laterActed, calls,
          atThreshold, sustained, loadCounter, healthReply, statusReply,
          statusReport>>

\* the history of the sample-sequence scenarios; only SpecNoFailure and
\* SpecSustained record it
scenario == <<run, fresh, samples, firstAction, laterActed, calls,
              atThreshold, sustained>>

\* the monolith's load counter and the replies of its two autopilot
\* endpoints; only SpecMonolith follows them (the autopilot's samples are
\* drawn from Rates)
monolith == <<loadCounter, healthReply, statusReply>>

\* the autopilot's own state
autopilot == <<isMonitoring, pollInterval, consecutiveErrors, microserviceProcess,
               proc, killTimers, suspended, stopDuring, aborted, malformed>>

supervisor == <<isMonitoring, pollInterval, consecutiveErrors, stopDuring>>
worker == <<microserviceProcess, proc, killTimers>>

\* "none":  no such process (never spawned, or exited and its exit event handled)
\* "alive": running and serving
\* "term":  running, SIGTERM received, closing its server
\* "dead":  exited, the 'exit' event not yet delivered to the autopilot
ProcStates == {"none", "alive", "term", "dead"}

RECURSIVE SumOver(_, _)
SumOver(f, S) ==
  IF S = {} THEN 0
  ELSE LET x == CHOOSE y \in S : TRUE IN f[x] + SumOver(f, S \ {x})

InFlight == SumOver(suspended, AwaitPoints)
InHandoff == SumOver(suspended, HandoffPoints)

Move(from, to) ==
  suspended' = [p \in AwaitPoints |->
                  suspended[p] - (IF p = from THEN 1 ELSE 0)
                               + (IF p = to THEN 1 ELSE 0)]
Leave(from) == suspended' = [suspended EXCEPT ![from] = @ - 1]
Enter(to) == suspended' = [suspended EXCEPT ![to] = @ + 1]

\* a process slot that no part of the state refers to
Free(p) == proc[p] = "none" /\ microserviceProcess # p /\ p \notin killTimers
FreeProcs == {p \in Procs : Free(p)}
NewProc == CHOOSE p \in FreeProcs : \A q \in FreeProcs : p <= q

\* ChildProcess.kill(signal)
Kill(st, signal) ==
  CASE st = "alive" /\ signal = "SIGTERM" -> "term"
    [] st \in {"alive", "term"} /\ signal = "SIGKILL" -> "dead"
    [] OTHER -> st

LiveWorkers == {p \in Procs : proc[p] \in {"alive", "term"}}

\* GET /api/health with the two status words exchanged
HealthStatusSwapped(flag) == IF flag = "active" THEN "separated" ELSE "integrated"

\* GET /api/health: status reported for the flag
HealthStatus(flag) == IF flag = "active" THEN "integrated" ELSE "separated"

\* GET /api/health: the reply
HealthReply(flag, load) == [code |-> 200, status |-> HealthStatus(flag), load |-> load]

\* the status values a set-redirector-status request may carry; "" is a
\* request without one
StatusBodies == {"active", "inactive", "paused", ""}

\* POST /api/internal/set-redirector-status that builds its reply from the
\* flag after the assignment
StatusCommandStale(flag, status) ==
  IF status \in {"active", "inactive"}
  THEN [flag |-> status,
        reply |-> [code |-> 200, previousStatus |-> status, currentStatus |-> status]]
  ELSE [flag |-> flag, reply |-> [code |-> 400]]

\* POST /api/internal/set-redirector-status without its validation: any
\* status is stored
StatusCommandUnchecked(flag, status) ==
  [flag |-> status,
   reply |-> [code |-> 200, previousStatus |-> flag, currentStatus |-> status]]

\* POST /api/internal/set-redirector-status: the new flag and the reply
StatusCommand(flag, status) ==
  IF status \in {"active", "inactive"}
  THEN [flag |-> status,
        reply |-> [code |-> 200, previousStatus |-> flag, currentStatus |-> status]]
  ELSE [flag |-> flag, reply |-> [code |-> 400]]

\* makeScalingDecision with the two comparisons swapped in strictness: the
\* threshold value itself scales up
ScalingActionAtThreshold(currentLoad, currentStatus, isMicroserviceRunning) ==
  IF currentLoad >= LOAD_THRESHOLD /\ ~isMicroserviceRunning THEN "ScaleUp"
  ELSE IF currentLoad < LOAD_THRESHOLD /\ isMicroserviceRunning THEN "ScaleDown"
  ELSE "NoAction"

\* makeScalingDecision with the scale-up test not looking at the handle
ScalingActionIgnoresWorker(currentLoad, currentStatus, isMicroserviceRunning) ==
  IF currentLoad > LOAD_THRESHOLD THEN "ScaleUp"
  ELSE IF currentLoad <= LOAD_THRESHOLD /\ isMicroserviceRunning THEN "ScaleDown"
  ELSE "NoAction"

\* makeScalingDecision: which branch is taken
ScalingAction(currentLoad, currentStatus, isMicroserviceRunning) ==
  IF currentLoad > LOAD_THRESHOLD /\ ~isMicroserviceRunning THEN "ScaleUp"
  ELSE IF currentLoad <= LOAD_THRESHOLD /\ isMicroserviceRunning THEN "ScaleDown"
  ELSE "NoAction"

\* no reply received yet
NoReply == [code |-> 0]

Init ==
  /\ isMonitoring = FALSE
  /\ pollInterval = FALSE
  /\ consecutiveErrors = 0
  /\ microserviceProcess = 0
  /\ redirectorStatus = "active"
  /\ proc = [p \in Procs |-> "none"]
  /\ killTimers = {}
  /\ suspended = [p \in AwaitPoints |-> 0]
  /\ stopDuring = FALSE
  /\ aborted = "none"
  /\ malformed = FALSE
  /\ run = "none"
  /\ fresh = FALSE
  /\ samples = 0
  /\ firstAction = "none"
  /\ laterActed = FALSE
  /\ calls = 0
  /\ atThreshold = FALSE
  /\ sustained = "none"
  /\ loadCounter = 0
  /\ healthReply = NoReply
  /\ statusReply = NoReply
  /\ statusReport = NoReply

\* stopMicroservice() that arms its force-kill timer before looking at the
\* handle
stopMicroserviceAlwaysArms ==
  /\ proc' = [p \in Procs |->
                IF p = microserviceProcess THEN Kill(proc[p], "SIGTERM") ELSE proc[p]]
  /\ killTimers' = killTimers \cup
                     {IF microserviceProcess = 0 THEN CHOOSE p \in Procs : TRUE
                                                 ELSE microserviceProcess}
  /\ microserviceProcess' = 0

\* stopMicroservice()
stopMicroservice ==
  IF microserviceProcess = 0
  THEN UNCHANGED worker
  ELSE /\ proc' = [proc EXCEPT ![microserviceProcess] = Kill(@, "SIGTERM")]
       /\ killTimers' = killTimers \cup {microserviceProcess}
       /\ microserviceProcess' = 0

\* stop() that clears the flag but leaves the interval armed
stopKeepsInterval ==
  /\ isMonitoring' = FALSE
  /\ pollInterval' = pollInterval
  /\ stopMicroservice

\* stop(), as called by the embedding program and by the fatal-error path
stop ==
  /\ isMonitoring' = FALSE
  /\ pollInterval' = FALSE
  /\ stopMicroservice

\* start() without its isMonitoring guard: every call arms an interval,
\* resets the count and runs an initial check
StartAlways ==
  /\ UNCHANGED <<scenario, monolith, statusReport>>
  /\ malformed' = FALSE
  /\ InFlight < MaxTicks
  /\ aborted' = "none"
  /\ isMonitoring' = TRUE
  /\ consecutiveErrors' = 0
  /\ pollInterval' = TRUE
  /\ stopDuring' = FALSE
  /\ Enter("health")
  /\ UNCHANGED <<worker, redirectorStatus>>

\* start() that arms the interval but runs no initial check
StartWithoutInitialCheck ==
  IF isMonitoring
  THEN UNCHANGED vars
  ELSE /\ InFlight < MaxTicks
       /\ UNCHANGED <<scenario, monolith, statusReport>>
       /\ malformed' = FALSE
       /\ aborted' = "none"
       /\ isMonitoring' = TRUE
       /\ consecutiveErrors' = 0
       /\ pollInterval' = TRUE
       /\ stopDuring' = FALSE
       /\ UNCHANGED <<worker, redirectorStatus, suspended>>

\* start(): no-op when already monitoring; otherwise arms the interval and
\* runs the initial check, which suspends at the health request
Start ==
  IF isMonitoring
  THEN UNCHANGED vars
  ELSE /\ InFlight < MaxTicks
       /\ UNCHANGED <<scenario, monolith, statusReport>>
       /\ malformed' = FALSE
       /\ aborted' = "none"
       /\ isMonitoring' = TRUE
       /\ consecutiveErrors' = 0
       /\ pollInterval' = TRUE
       /\ stopDuring' = FALSE
       /\ Enter("health")
       /\ UNCHANGED <<worker, redirectorStatus>>

\* stop() called by the embedding program (signal handlers, a collaborator)
Stop ==
  /\ UNCHANGED <<scenario, monolith, statusReport>>
  /\ malformed' = FALSE
  /\ aborted' = "none"
  /\ stop
  /\ stopDuring' = (stopDuring \/ InHandoff > 0)
  /\ UNCHANGED <<consecutiveErrors, redirectorStatus, suspended>>

\* the setInterval callback: a new checkLoadAndScale() that suspends at the
\* health request
TimerTick ==
  /\ UNCHANGED <<scenario, monolith, statusReport>>
  /\ malformed' = FALSE
  /\ aborted' = "none"
  /\ pollInterval
  /\ InFlight < MaxTicks
  /\ Enter("health")
  /\ UNCHANGED <<supervisor, worker, redirectorStatus>>

\* the health request resolves: reset the error count and decide
HealthResponse(currentLoad, spawnOk) ==
  /\ suspended["health"] > 0
  /\ consecutiveErrors' = 0
  /\ LET action == ScalingAction(currentLoad, HealthStatus(redirectorStatus),
                                 microserviceProcess # 0)
     IN  CASE action = "ScaleUp" ->
                \* startMicroservice(): spawn; a spawn failure is reported by
                \* the 'error' event on the next turn of the event loop, which
                \* clears the handle and rejects, ending the tick
                IF spawnOk
                THEN /\ FreeProcs # {}
                     /\ microserviceProcess' = NewProc
                     /\ proc' = [proc EXCEPT ![NewProc] = "alive"]
                     /\ Move("health", "starting")
                     /\ aborted' = "none"
                     /\ UNCHANGED killTimers
                ELSE /\ Leave("health")
                     /\ aborted' = "spawn"
                     /\ UNCHANGED worker
           [] action = "ScaleDown" ->
                \* setMonolithRedirectorStatus('active') is sent
                /\ Move("health", "downpost")
                /\ aborted' = "none"
                /\ UNCHANGED worker
           [] OTHER ->
                /\ Leave("health")
                /\ aborted' = "none"
                /\ UNCHANGED worker
  /\ UNCHANGED <<isMonitoring, pollInterval, stopDuring, redirectorStatus>>

HealthOk(currentLoad, spawnOk) ==
  /\ HealthResponse(currentLoad, spawnOk)
  /\ UNCHANGED <<scenario, monolith, statusReport>>
  /\ malformed' = FALSE

\* the health request resolves with a body whose redirector object carries
\* no number as load (currentLoad is undefined): the count is reset, and both
\* comparisons of makeScalingDecision are false, so the else branch logs
HealthMalformed ==
  /\ UNCHANGED <<scenario, monolith, statusReport>>
  /\ malformed' = TRUE
  /\ aborted' = "none"
  /\ suspended["health"] > 0
  /\ consecutiveErrors' = 0
  /\ Leave("health")
  /\ UNCHANGED <<isMonitoring, pollInterval, stopDuring, worker, redirectorStatus>>

\* the health request fails and the first failure is already fatal
HealthFailStopsAtOnce ==
  /\ UNCHANGED <<scenario, monolith, statusReport>>
  /\ malformed' = FALSE
  /\ aborted' = "none"
  /\ suspended["health"] > 0
  /\ consecutiveErrors' = consecutiveErrors + 1
  /\ Leave("health")
  /\ stop
  /\ UNCHANGED <<stopDuring, redirectorStatus>>

\* the health request fails (timeout, connection error, non-2xx, or a body
\* without a redirector object): count it, and stop() at the limit
HealthFail ==
  /\ UNCHANGED <<scenario, monolith, statusReport>>
  /\ malformed' = FALSE
  /\ aborted' = "none"
  /\ suspended["health"] > 0
  /\ consecutiveErrors' = consecutiveErrors + 1
  /\ Leave("health")
  /\ IF consecutiveErrors' >= maxConsecutiveErrors
     THEN stop
     ELSE UNCHANGED <<isMonitoring, pollInterval, worker>>
  /\ UNCHANGED <<stopDuring, redirectorStatus>>

\* startMicroservice's 1000 ms timer: resolve if a handle is present, else
\* reject (the tick then ends in the scale-up catch)
StartTimer ==
  /\ UNCHANGED <<scenario, monolith, statusReport>>
  /\ malformed' = FALSE
  /\ suspended["starting"] > 0
  /\ IF microserviceProcess # 0
     THEN Move("starting", "upsleep") /\ aborted' = "none"
     ELSE Leave("starting") /\ aborted' = "startwait"
  /\ UNCHANGED <<supervisor, worker, redirectorStatus>>

\* sleep(2000) ends: setMonolithRedirectorStatus('inactive') is sent
UpSleepDone ==
  /\ UNCHANGED <<scenario, monolith, statusReport>>
  /\ malformed' = FALSE
  /\ aborted' = "none"
  /\ suspended["upsleep"] > 0
  /\ Move("upsleep", "uppost")
  /\ UNCHANGED <<supervisor, worker, redirectorStatus>>

\* POST /api/internal/set-redirector-status, as the autopilot sees it
setRedirectorStatus(status) ==
  redirectorStatus' = StatusCommand(redirectorStatus, status).flag

\* the 'inactive' command succeeds: scale-up complete
UpPostOk ==
  /\ UNCHANGED <<scenario, monolith, statusReport>>
  /\ malformed' = FALSE
  /\ aborted' = "none"
  /\ suspended["uppost"] > 0
  /\ setRedirectorStatus("inactive")
  /\ Leave("uppost")
  /\ UNCHANGED <<supervisor, worker>>

\* the 'inactive' command fails and the error reaches the catch of
\* checkLoadAndScale, as if the scale-up catch rethrew it
UpPostFailCounts(applied) ==
  /\ UNCHANGED <<scenario, monolith, statusReport>>
  /\ malformed' = FALSE
  /\ aborted' = "uppost"
  /\ suspended["uppost"] > 0
  /\ IF applied THEN setRedirectorStatus("inactive") ELSE UNCHANGED redirectorStatus
  /\ Leave("uppost")
  /\ consecutiveErrors' = consecutiveErrors + 1
  /\ UNCHANGED <<isMonitoring, pollInterval, stopDuring, worker>>

\* the 'inactive' command fails (unreachable, non-2xx, or the reply is lost
\* after the monolith applied it): the catch only logs
UpPostFail(applied) ==
  /\ UNCHANGED <<scenario, monolith, statusReport>>
  /\ malformed' = FALSE
  /\ aborted' = "uppost"
  /\ suspended["uppost"] > 0
  /\ IF applied THEN setRedirectorStatus("inactive") ELSE UNCHANGED redirectorStatus
  /\ Leave("uppost")
  /\ UNCHANGED <<supervisor, worker>>

\* the 'active' command succeeds: sleep(1000) begins
DownPostOk ==
  /\ UNCHANGED <<scenario, monolith, statusReport>>
  /\ malformed' = FALSE
  /\ aborted' = "none"
  /\ suspended["downpost"] > 0
  /\ setRedirectorStatus("active")
  /\ Move("downpost", "downsleep")
  /\ UNCHANGED <<supervisor, worker>>

\* the 'active' command fails and the worker is stopped all the same, as if
\* stopMicroservice() stood after the try block
DownPostFailStops(applied) ==
  /\ UNCHANGED <<scenario, monolith, statusReport>>
  /\ malformed' = FALSE
  /\ aborted' = "downpost"
  /\ suspended["downpost"] > 0
  /\ IF applied THEN setRedirectorStatus("active") ELSE UNCHANGED redirectorStatus
  /\ Leave("downpost")
  /\ stopMicroservice
  /\ UNCHANGED supervisor

\* the 'active' command fails: the catch only logs
DownPostFail(applied) ==
  /\ UNCHANGED <<scenario, monolith, statusReport>>
  /\ malformed' = FALSE
  /\ aborted' = "downpost"
  /\ suspended["downpost"] > 0
  /\ IF applied THEN setRedirectorStatus("active") ELSE UNCHANGED redirectorStatus
  /\ Leave("downpost")
  /\ UNCHANGED <<supervisor, worker>>

\* sleep(1000) ends: stopMicroservice()
SettleDone ==
  /\ aborted' = "none"
  /\ suspended["downsleep"] > 0
  /\ stopMicroservice
  /\ Leave("downsleep")
  /\ UNCHANGED <<supervisor, redirectorStatus>>

DownSleepDone ==
  /\ SettleDone
  /\ UNCHANGED <<scenario, monolith, statusReport>>
  /\ malformed' = FALSE

\* stopMicroservice's 5000 ms timer, armed when process p was stopped:
\* SIGKILL whatever handle is present now
ForceKill(p) ==
  /\ UNCHANGED <<scenario, monolith, statusReport>>
  /\ malformed' = FALSE
  /\ aborted' = "none"
  /\ p \in killTimers
  /\ killTimers' = killTimers \ {p}
  /\ IF microserviceProcess # 0
     THEN proc' = [proc EXCEPT ![microserviceProcess] = Kill(@, "SIGKILL")]
     ELSE UNCHANGED proc
  /\ UNCHANGED <<supervisor, microserviceProcess, redirectorStatus, suspended>>

\* a worker exits on its own (crash, port in use, killed from outside)
WorkerCrash(p) ==
  /\ UNCHANGED <<scenario, monolith, statusReport>>
  /\ malformed' = FALSE
  /\ aborted' = "none"
  /\ proc[p] = "alive"
  /\ proc' = [proc EXCEPT ![p] = "dead"]
  /\ UNCHANGED <<supervisor, microserviceProcess, killTimers, redirectorStatus, suspended>>

\* a worker that received SIGTERM closes its server and exits
WorkerShutdown(p) ==
  /\ UNCHANGED <<scenario, monolith, statusReport>>
  /\ malformed' = FALSE
  /\ aborted' = "none"
  /\ proc[p] = "term"
  /\ proc' = [proc EXCEPT ![p] = "dead"]
  /\ UNCHANGED <<supervisor, microserviceProcess, killTimers, redirectorStatus, suspended>>

\* an 'exit' observer that only logs
ExitEventKeepsHandle(p) ==
  /\ UNCHANGED <<scenario, monolith, statusReport>>
  /\ malformed' = FALSE
  /\ aborted' = "none"
  /\ proc[p] = "dead"
  /\ proc' = [proc EXCEPT ![p] = "none"]
  /\ UNCHANGED <<supervisor, microserviceProcess, killTimers, redirectorStatus, suspended>>

\* the 'exit' observer registered by startMicroservice
ExitEvent(p) ==
  /\ UNCHANGED <<scenario, monolith, statusReport>>
  /\ malformed' = FALSE
  /\ aborted' = "none"
  /\ proc[p] = "dead"
  /\ proc' = [proc EXCEPT ![p] = "none"]
  /\ microserviceProcess' = 0
  /\ UNCHANGED <<supervisor, killTimers, redirectorStatus, suspended>>

Next ==
  \/ Start
  \/ Stop
  \/ TimerTick
  \/ \E currentLoad \in Rates, spawnOk \in BOOLEAN : HealthOk(currentLoad, spawnOk)
  \/ HealthMalformed
  \/ HealthFail
  \/ StartTimer
  \/ UpSleepDone
  \/ UpPostOk
  \/ \E applied \in BOOLEAN : UpPostFail(applied)
  \/ DownPostOk
  \/ \E applied \in BOOLEAN : DownPostFail(applied)
  \/ DownSleepDone
  \/ \E p \in Procs : ForceKill(p)
  \/ \E p \in Procs : WorkerCrash(p)
  \/ \E p \in Procs : WorkerShutdown(p)
  \/ \E p \in Procs : ExitEvent(p)

Spec == Init /\ [][Next]_vars

TypeOK ==
  /\ isMonitoring \in BOOLEAN
  /\ pollInterval \in BOOLEAN
  /\ consecutiveErrors \in 0 .. (maxConsecutiveErrors + MaxTicks)
  /\ microserviceProcess \in {0} \cup Procs
  /\ redirectorStatus \in {"active", "inactive"}
  /\ proc \in [Procs -> ProcStates]
  /\ killTimers \subseteq Procs
  /\ suspended \in [AwaitPoints -> 0 .. MaxTicks]
  /\ InFlight <= MaxTicks
  /\ stopDuring \in BOOLEAN
  /\ aborted \in Aborts
  /\ malformed \in BOOLEAN
  /\ run \in {"none", "high", "low"}
  /\ fresh \in BOOLEAN
  /\ samples \in 0 .. 2
  /\ firstAction \in {"none", "ScaleUp", "ScaleDown", "NoAction"}
  /\ laterActed \in BOOLEAN
  /\ calls \in 0 .. MaxCalls
  /\ atThreshold \in BOOLEAN
  /\ sustained \in {"none", "high", "low"}
  /\ loadCounter \in 0 .. MaxLoad
  /\ healthReply \in {NoReply} \cup
        [code : {200}, status : {"integrated", "separated"}, load : 0 .. MaxLoad]
  /\ statusReply \in {NoReply, [code |-> 400]} \cup
        [code : {200}, previousStatus : {"active", "inactive"},
         currentStatus : {"active", "inactive"}]
  /\ statusReport \in {NoReply} \cup
        [isMonitoring : BOOLEAN, microserviceRunning : BOOLEAN,
         consecutiveErrors : 0 .. (maxConsecutiveErrors + MaxTicks)]

\* -------------------------------------------------- sample-sequence scenarios
\* The scenarios of the scaling logic: successive samples with no load-query,
\* spawn or authority-switch failure, no worker crash and no stop() call.
\* A run is a maximal sequence of handled samples on one side of the threshold.

Min(a, b) == IF a < b THEN a ELSE b

\* a run above the threshold starts with no worker: no handle, no process,
\* nothing left of an earlier worker and no handoff in progress
StartsWithNoWorker ==
  /\ microserviceProcess = 0
  /\ \A p \in Procs : proc[p] = "none"
  /\ killTimers = {}
  /\ InHandoff = 0

\* a run at or below the threshold starts with a worker running
StartsWithWorker ==
  /\ microserviceProcess # 0
  /\ proc[microserviceProcess] = "alive"

\* a sample is handled with no failure; the history records what it decided
SampleOk(currentLoad) ==
  /\ HealthResponse(currentLoad, TRUE)
  /\ LET kind == IF currentLoad > LOAD_THRESHOLD THEN "high" ELSE "low"
         decided == IF suspended'["starting"] > suspended["starting"] THEN "ScaleUp"
                    ELSE IF suspended'["downpost"] > suspended["downpost"] THEN "ScaleDown"
                    ELSE "NoAction"
         spawns == IF decided = "ScaleUp" THEN 1 ELSE 0
     IN  /\ run' = kind
         /\ IF kind # run
            THEN /\ fresh' = (IF kind = "high" THEN StartsWithNoWorker
                                               ELSE StartsWithWorker)
                 /\ samples' = 1
                 /\ firstAction' = decided
                 /\ laterActed' = FALSE
                 /\ calls' = spawns
                 /\ atThreshold' = (currentLoad = LOAD_THRESHOLD)
            ELSE /\ samples' = Min(samples + 1, 2)
                 /\ laterActed' = (laterActed \/ decided # "NoAction")
                 /\ calls' = Min(calls + (IF kind = "high" THEN spawns ELSE 0), MaxCalls)
                 /\ atThreshold' = (atThreshold /\ currentLoad = LOAD_THRESHOLD)
                 /\ UNCHANGED <<fresh, firstAction>>
  /\ malformed' = FALSE
  /\ UNCHANGED <<sustained, monolith, statusReport>>

\* a scale-down reaches its stopMicroservice() call; the history counts it
ScaleDownStop ==
  /\ SettleDone
  /\ calls' = IF run = "low" THEN Min(calls + 1, MaxCalls) ELSE calls
  /\ malformed' = FALSE
  /\ UNCHANGED <<run, fresh, samples, firstAction, laterActed, atThreshold,
                 sustained, monolith, statusReport>>

NextNoFailure ==
  \/ Start
  \/ TimerTick
  \/ \E currentLoad \in Rates : SampleOk(currentLoad)
  \/ StartTimer
  \/ UpSleepDone
  \/ UpPostOk
  \/ DownPostOk
  \/ ScaleDownStop
  \/ \E p \in Procs : ForceKill(p)
  \/ \E p \in Procs : WorkerShutdown(p)
  \/ \E p \in Procs : ExitEvent(p)

SpecNoFailure == Init /\ [][NextNoFailure]_vars

\* ------------------------------------------------------------------ getStatus
\* The supervisor with its third operation: getStatus() runs to completion,
\* so nothing else happens between the call and the caller taking the value.

\* getStatus() that reports whether a worker process is alive
getStatusFromProcess ==
  [isMonitoring |-> isMonitoring,
   microserviceRunning |-> LiveWorkers # {},
   consecutiveErrors |-> consecutiveErrors]

\* getStatus(): the returned object (config left out)
getStatus ==
  [isMonitoring |-> isMonitoring,
   microserviceRunning |-> microserviceProcess # 0,
   consecutiveErrors |-> consecutiveErrors]

\* a getStatus() call
GetStatus ==
  /\ statusReport = NoReply
  /\ statusReport' = getStatus
  /\ UNCHANGED <<autopilot, redirectorStatus, scenario, monolith>>

\* the caller has taken the returned value
StatusReturned ==
  /\ statusReport # NoReply
  /\ statusReport' = NoReply
  /\ UNCHANGED <<autopilot, redirectorStatus, scenario, monolith>>

\* the operations and tick steps that set the three reported fields:
\* start(), stop(), the interval, load queries answered or failed, scale-up
\* and scale-down running through, and workers exiting
NextStatus ==
  \/ statusReport = NoReply /\ Start
  \/ statusReport = NoReply /\ Stop
  \/ statusReport = NoReply /\ TimerTick
  \/ statusReport = NoReply /\ \E currentLoad \in Rates : HealthOk(currentLoad, TRUE)
  \/ statusReport = NoReply /\ HealthFail
  \/ statusReport = NoReply /\ StartTimer
  \/ statusReport = NoReply /\ UpSleepDone
  \/ statusReport = NoReply /\ UpPostOk
  \/ statusReport = NoReply /\ DownPostOk
  \/ statusReport = NoReply /\ DownSleepDone
  \/ statusReport = NoReply /\ \E p \in Procs : WorkerShutdown(p)
  \/ statusReport = NoReply /\ \E p \in Procs : ExitEvent(p)
  \/ GetStatus
  \/ StatusReturned

SpecStatus == Init /\ [][NextStatus]_vars

\* ------------------------------------------------------------ sustained load
\* The no-failure scenario with a load source that, from some sample on,
\* stays on one side of the threshold.

\* the load settles above ("high") or at or below ("low") the threshold
Sustain(kind) ==
  /\ sustained = "none"
  /\ sustained' = kind
  /\ UNCHANGED <<isMonitoring, pollInterval, consecutiveErrors, microserviceProcess,
                 redirectorStatus, proc, killTimers, suspended, stopDuring,
                 aborted, malformed, run, fresh, samples, firstAction,
                 laterActed, calls, atThreshold, monolith, statusReport>>

\* a sample is handled; once the load has settled it lies on the settled side
SustainedSample(currentLoad) ==
  /\ \/ sustained = "none"
     \/ sustained = (IF currentLoad > LOAD_THRESHOLD THEN "high" ELSE "low")
  /\ SampleOk(currentLoad)

NextSustained ==
  \/ Start
  \/ TimerTick
  \/ \E kind \in {"high", "low"} : Sustain(kind)
  \/ \E currentLoad \in Rates : SustainedSample(currentLoad)
  \/ StartTimer
  \/ UpSleepDone
  \/ UpPostOk
  \/ DownPostOk
  \/ ScaleDownStop
  \/ \E p \in Procs : ForceKill(p)
  \/ \E p \in Procs : WorkerShutdown(p)
  \/ \E p \in Procs : ExitEvent(p)

\* the interval keeps firing, every request is answered, every timer fires,
\* every signalled worker exits and every exit event is delivered
FairSustained ==
  /\ WF_vars(Start)
  /\ WF_vars(TimerTick)
  /\ WF_vars(\E currentLoad \in Rates : SustainedSample(currentLoad))
  /\ WF_vars(StartTimer)
  /\ WF_vars(UpSleepDone)
  /\ WF_vars(UpPostOk)
  /\ WF_vars(DownPostOk)
  /\ WF_vars(ScaleDownStop)
  /\ \A p \in Procs : WF_vars(ForceKill(p))
  /\ \A p \in Procs : WF_vars(WorkerShutdown(p))
  /\ \A p \in Procs : WF_vars(ExitEvent(p))

SpecSustained == Init /\ [][NextSustained]_vars /\ FairSustained

\* --------------------------------------------------------------- the monolith
\* The monolith's side of the autopilot protocol: the redirect route that
\* feeds the load counter, the counter's periodic reset and the two
\* endpoints the autopilot calls.

\* GET /:shortCode that counts the request before it looks at the flag
RedirectAlwaysCounts ==
  /\ loadCounter < MaxLoad
  /\ loadCounter' = loadCounter + 1
  /\ UNCHANGED <<redirectorStatus, healthReply, statusReply, autopilot, scenario, statusReport>>

\* GET /:shortCode on the monolith: redirect to the microservice when the
\* flag is not 'active', else count the request
Redirect ==
  /\ IF redirectorStatus # "active"
     THEN UNCHANGED loadCounter
     ELSE /\ loadCounter < MaxLoad
          /\ loadCounter' = loadCounter + 1
  /\ UNCHANGED <<redirectorStatus, healthReply, statusReply, autopilot, scenario, statusReport>>

\* the 60 s interval of the in-memory database
ResetLoad ==
  /\ loadCounter' = 0
  /\ UNCHANGED <<redirectorStatus, healthReply, statusReply, autopilot, scenario, statusReport>>

\* GET /api/health
GetHealth ==
  /\ healthReply' = HealthReply(redirectorStatus, loadCounter)
  /\ UNCHANGED <<redirectorStatus, loadCounter, statusReply, autopilot, scenario, statusReport>>

\* POST /api/internal/set-redirector-status
PostStatus(status) ==
  /\ redirectorStatus' = StatusCommand(redirectorStatus, status).flag
  /\ statusReply' = StatusCommand(redirectorStatus, status).reply
  /\ UNCHANGED <<loadCounter, healthReply, autopilot, scenario, statusReport>>

NextMonolith ==
  \/ Redirect
  \/ ResetLoad
  \/ GetHealth
  \/ \E status \in StatusBodies : PostStatus(status)

SpecMonolith == Init /\ [][NextMonolith]_vars

\* the sustained-load scenario in which a worker may also exit on its own
NextUnexpectedExit ==
  \/ NextSustained
  \/ \E p \in Procs : WorkerCrash(p)

SpecUnexpectedExit == Init /\ [][NextUnexpectedExit]_vars /\ FairSustained

\* ------------------------------------------------------------------ claims

\* no child process exists that could serve redirects
NoWorker == LiveWorkers = {}
Separated == redirectorStatus = "inactive"
Integrated == redirectorStatus = "active"

\* C1: in every reachable state the monolith's flag is not 'inactive'
\* (Separated) while no live worker process exists.
C1_NeverSeparatedWithoutWorker == ~(Separated /\ NoWorker)

\* C2: whenever a health response is handled, the branch taken is ScaleUp
\* exactly when the rate is above the threshold and no handle is held,
\* ScaleDown exactly when the rate is at or below the threshold and a handle
\* is held, and NoAction in every other case, whatever the reported status.
C2_DecisionTable ==
  [][\A r \in Rates :
       HealthOk(r, TRUE) =>
         LET running == microserviceProcess # 0
             up == suspended'["starting"] = suspended["starting"] + 1
             down == suspended'["downpost"] = suspended["downpost"] + 1
             nothing == /\ suspended'["starting"] = suspended["starting"]
                        /\ suspended'["downpost"] = suspended["downpost"]
                        /\ UNCHANGED worker
         IN  /\ up <=> (r > LOAD_THRESHOLD /\ ~running)
             /\ down <=> (r <= LOAD_THRESHOLD /\ running)
             /\ nothing <=> ~(r > LOAD_THRESHOLD /\ ~running)
                            /\ ~(r <= LOAD_THRESHOLD /\ running)]_vars

\* C2 witness: a tick took the ScaleDown branch while the monolith reported
\* 'separated', after an earlier tick took the ScaleUp branch
C2_Witness ==
  /\ suspended["downpost"] > 0
  /\ microserviceProcess # 0
  /\ HealthStatus(redirectorStatus) = "separated"

\* C3: when the 'inactive' command of a scale-up fails, the tick ends with no
\* worker handle, no live worker and the flag still 'active'.
C3_ScaleUpRollsBack ==
  [][aborted' = "uppost" =>
       microserviceProcess' = 0 /\ NoWorker' /\ Integrated']_vars

\* C4: once stop() has run during a handoff and every in-flight tick has
\* finished, at most one of {flag Separated, worker running} holds and the
\* flag is not Separated with the worker dead.
C4_StopMidHandoffSafe ==
  (stopDuring /\ ~isMonitoring /\ InFlight = 0) =>
     /\ ~(Separated /\ ~NoWorker)
     /\ ~(Separated /\ NoWorker)

\* C5: the decision logic of a tick never runs while another tick's handoff
\* is still outstanding, so at most one handoff is in progress.
C5_TicksDoNotOverlap ==
  [][(\E r \in Rates, ok \in BOOLEAN : HealthOk(r, ok)) => InHandoff = 0]_vars

\* C6: when the error count reaches maxConsecutiveErrors, monitoring is off,
\* the poll timer is cancelled, no handle is held and every worker that was
\* running has been sent a termination signal.
C6_FatalStopTearsDown ==
  consecutiveErrors >= maxConsecutiveErrors =>
     /\ ~isMonitoring
     /\ ~pollInterval
     /\ microserviceProcess = 0
     /\ \A p \in Procs : proc[p] # "alive"

\* C7: a scale-down sends the termination signal only after its 'active'
\* command succeeded, and never while the flag is Separated.
C7_FlagBeforeStop ==
  [][(DownSleepDone /\ microserviceProcess # 0) => Integrated]_vars

\* C8: when a scale-up issues the 'inactive' command, the worker handle is
\* present and the worker process is alive.
C8_CommandOnlyWithLiveWorker ==
  [][UpSleepDone =>
       microserviceProcess # 0 /\ proc[microserviceProcess] = "alive"]_vars

\* C9: when the spawn fails or the start wait finds no worker, the scale-up
\* is aborted: no command is issued, the flag is unchanged, no handle is
\* held and no unsignalled worker process remains.
C9_AbortLeavesNoOrphan ==
  [][aborted' \in {"spawn", "startwait"} =>
       /\ suspended'["uppost"] = suspended["uppost"]
       /\ suspended'["upsleep"] = suspended["upsleep"]
       /\ UNCHANGED redirectorStatus
       /\ microserviceProcess' = 0
       /\ \A p \in Procs : proc'[p] # "alive"]_vars

\* C10: when the 'active' command of a scale-down fails, the tick ends
\* without touching the worker: handle, processes and kill timers are
\* unchanged, no stop is pending, and with the handle still held every
\* rate at or below the threshold decides ScaleDown again.
C10_ScaleDownAbortKeepsWorker ==
  [][aborted' = "downpost" =>
       /\ UNCHANGED worker
       /\ suspended'["downsleep"] = suspended["downsleep"]
       /\ suspended'["downpost"] = suspended["downpost"] - 1
       /\ (microserviceProcess' # 0 =>
             \A r \in Rates :
               r <= LOAD_THRESHOLD =>
                 ScalingAction(r, HealthStatus(redirectorStatus'), TRUE) = "ScaleDown")]_vars

\* C10 witness: a scale-down was just aborted and its worker is still held
\* and running
C10_Witness ==
  /\ aborted = "downpost"
  /\ microserviceProcess # 0
  /\ proc[microserviceProcess] = "alive"

\* a step of a tick: a segment of checkLoadAndScale / makeScalingDecision
TickStep ==
  \/ \E r \in Rates, ok \in BOOLEAN : HealthOk(r, ok)
  \/ HealthMalformed
  \/ HealthFail
  \/ StartTimer
  \/ UpSleepDone
  \/ UpPostOk
  \/ \E a \in BOOLEAN : UpPostFail(a)
  \/ DownPostOk
  \/ \E a \in BOOLEAN : DownPostFail(a)
  \/ DownSleepDone

\* C11: a handoff-step failure (spawn failure, start wait rejected, or either
\* authority-switch command failing) does not add to consecutiveErrors and
\* leaves isMonitoring and the poll timer as they were; a failed spawn
\* leaves the count at the 0 its successful load query set.
C11_HandoffFailureNotCounted ==
  [][aborted' # "none" =>
       /\ UNCHANGED <<isMonitoring, pollInterval>>
       /\ consecutiveErrors' =
            (IF aborted' = "spawn" THEN 0 ELSE consecutiveErrors)]_vars

\* C11 witness: an authority-switch command just failed while the count
\* stood at 2 (two failed load queries of overlapping ticks); monitoring goes on
C11_Witness ==
  /\ aborted \in {"uppost", "downpost"}
  /\ consecutiveErrors = maxConsecutiveErrors - 1
  /\ isMonitoring
  /\ pollInterval

\* C12: when stop() returns, isMonitoring is false, the poll timer is
\* cleared, no handle is held and no worker is left running unsignalled.
C12_StopTearsDown ==
  [][Stop =>
       /\ ~isMonitoring'
       /\ ~pollInterval'
       /\ microserviceProcess' = 0
       /\ \A p \in Procs : proc'[p] # "alive"]_vars

\* C13: while the supervisor is stopped, no step of a tick spawns a worker,
\* sends an authority-switch command, changes the flag or changes
\* isMonitoring, the worker handle or consecutiveErrors.
C13_NoTickAfterStop ==
  [][(~isMonitoring /\ TickStep) =>
       /\ UNCHANGED <<isMonitoring, consecutiveErrors, microserviceProcess,
                      proc, redirectorStatus>>
       /\ suspended'["starting"] <= suspended["starting"]
       /\ suspended'["uppost"] <= suspended["uppost"]
       /\ suspended'["downpost"] <= suspended["downpost"]]_vars

\* C14: start() while monitoring changes nothing, and start() arms the poll
\* timer only when none is armed.
C14_StartNotReentrant ==
  [][Start => IF isMonitoring THEN UNCHANGED vars ELSE ~pollInterval]_vars

\* C14 witness: monitoring with a tick in flight and a non-zero error count,
\* where a second start() would show
C14_Witness ==
  /\ isMonitoring
  /\ pollInterval
  /\ consecutiveErrors > 0
  /\ InFlight > 0
  /\ ENABLED Start

\* C15: when the force-kill timer of a stopped worker fires and that worker
\* has not exited, the worker is killed.
C15_ForceKillHitsStoppedWorker ==
  [][\A p \in Procs :
       (ForceKill(p) /\ proc[p] \in {"alive", "term"}) => proc'[p] = "dead"]_vars

\* C16: the exit observer of a worker clears the handle, and a successful
\* sample above the threshold with no handle held spawns a fresh worker.
C16_ExitThenFreshScaleUp ==
  [][/\ \A p \in Procs :
          (proc[p] = "dead" /\ proc'[p] = "none") => microserviceProcess' = 0
     /\ \A r \in Rates :
          (r > LOAD_THRESHOLD /\ microserviceProcess = 0 /\ HealthOk(r, TRUE)) =>
             /\ microserviceProcess' # 0
             /\ proc[microserviceProcess'] = "none"
             /\ proc'[microserviceProcess'] = "alive"
             /\ suspended'["starting"] = suspended["starting"] + 1]_vars

\* C16 witness: the worker of a completed scale-up exited on its own, its
\* handle is cleared, and the next tick is waiting for its sample
C16_Witness ==
  /\ isMonitoring
  /\ Separated
  /\ microserviceProcess = 0
  /\ \A p \in Procs : proc[p] = "none"
  /\ killTimers = {}
  /\ suspended["health"] > 0
  /\ InHandoff = 0

\* C17: whenever no handle is held, no worker process is still alive.
C17_HandleOutlivesWorker == microserviceProcess = 0 => NoWorker

\* C18: whenever no handoff is in progress, a handle is held exactly when
\* the flag is 'inactive'.
C18_BookkeepingMatchesFlag ==
  InHandoff = 0 => (microserviceProcess # 0 <=> Separated)

C20_OneStopPerLowRun ==
  (run = "low" /\ fresh) =>
     /\ firstAction = "ScaleDown"
     /\ ~laterActed
     /\ calls <= 1
     /\ (InFlight = 0 => calls = 1)

\* C21: in a run of successful samples all equal to the threshold, with no
\* failures, no sample decides ScaleUp and at most one action is taken: the
\* first sample decides ScaleDown if a worker was running and NoAction
\* otherwise, and every later sample decides NoAction.
C21_BoundaryDoesNotOscillate ==
  (run = "low" /\ atThreshold) =>
     /\ firstAction # "ScaleUp"
     /\ (fresh => firstAction = "ScaleDown")
     /\ ~laterActed

\* a load query fails: the request fails, or its reply has a malformed body
FailedQuery == HealthFail \/ HealthMalformed

\* a load query succeeds: a reply with a numeric load is handled
SuccessfulQuery ==
  /\ ~malformed'
  /\ \E r \in Rates, ok \in BOOLEAN : HealthOk(r, ok)

\* C22: consecutiveErrors counts the failed load queries since the last
\* successful query or effective start(): a successful query and start() set
\* it to 0, a failed query adds exactly 1, and no other step changes it.
C22_CountIsFailuresSinceSuccess ==
  [][consecutiveErrors' =
       (IF SuccessfulQuery THEN 0
        ELSE IF FailedQuery THEN consecutiveErrors + 1
        ELSE IF Start /\ ~isMonitoring THEN 0
        ELSE consecutiveErrors)]_vars

\* C23: a failed load query that does not bring the count to
\* maxConsecutiveErrors adds exactly 1 to it, leaves the handle, the worker
\* processes, the flag, the poll timer and isMonitoring unchanged, and
\* starts no handoff.
C23_FailedQueryOnlyCounts ==
  [][(FailedQuery /\ consecutiveErrors + 1 < maxConsecutiveErrors) =>
       /\ consecutiveErrors' = consecutiveErrors + 1
       /\ UNCHANGED <<worker, redirectorStatus, pollInterval, isMonitoring>>
       /\ \A a \in HandoffPoints : suspended'[a] = suspended[a]]_vars

\* C24: an error inside a tick ends that tick where it is caught (the tick
\* is no longer in flight and nothing escapes it), and no step of a tick
\* turns monitoring off or disarms the poll timer unless consecutiveErrors
\* has reached maxConsecutiveErrors.
C24_ErrorsStayInsideTick ==
  [][/\ (HealthFail \/ aborted' # "none") => InFlight' = InFlight - 1
     /\ TickStep =>
          \/ UNCHANGED <<isMonitoring, pollInterval>>
          \/ consecutiveErrors' >= maxConsecutiveErrors]_vars

\* C24 witness: a scale-up was just aborted by a failed spawn or start wait
\* and its tick is over; monitoring goes on with the timer armed
C24_Witness ==
  /\ aborted \in {"spawn", "startwait"}
  /\ isMonitoring
  /\ pollInterval
  /\ InFlight = 0

\* C25: after a fatal stop and until start() is called, no load query is
\* issued, no worker is spawned and no authority-switch command is sent; a
\* start() then sets isMonitoring, resets consecutiveErrors to 0, arms the
\* poll timer and issues a load query.
C25_NoActivityAfterFatalStop ==
  [][/\ (~isMonitoring /\ consecutiveErrors >= maxConsecutiveErrors /\ ~Start) =>
          /\ suspended'["health"] <= suspended["health"]
          /\ suspended'["starting"] <= suspended["starting"]
          /\ suspended'["uppost"] <= suspended["uppost"]
          /\ suspended'["downpost"] <= suspended["downpost"]
     /\ (~isMonitoring /\ Start) =>
          /\ isMonitoring'
          /\ pollInterval'
          /\ consecutiveErrors' = 0
          /\ suspended'["health"] = suspended["health"] + 1]_vars

\* C26: start() when not monitoring arms the poll timer and, in the same
\* call, issues the load query of an initial check, so a sample can be
\* handled with no timer tick having fired.
C26_StartChecksAtOnce ==
  [][(~isMonitoring /\ Start) =>
       /\ pollInterval'
       /\ suspended'["health"] = suspended["health"] + 1
       /\ \A a \in HandoffPoints : suspended'[a] = suspended[a]
       /\ (ENABLED (\E r \in Rates : HealthOk(r, TRUE)))']_vars

\* C26 witness: start() has just run on a new supervisor: the initial check
\* is waiting for its sample
C26_Witness ==
  /\ isMonitoring
  /\ pollInterval
  /\ suspended["health"] = 1
  /\ InFlight = 1
  /\ consecutiveErrors = 0
  /\ microserviceProcess = 0
  /\ \A p \in Procs : proc[p] = "none"
  /\ Integrated

\* C27: stopMicroservice() with no handle sends no signal and arms no timer,
\* stop() always leaves the supervisor stopped with no handle, and stop() on
\* a supervisor in that state changes nothing.
C27_StopIsIdempotent ==
  [][/\ ((DownSleepDone \/ Stop) /\ microserviceProcess = 0) => UNCHANGED worker
     /\ Stop => (~isMonitoring' /\ ~pollInterval' /\ microserviceProcess' = 0)
     /\ (Stop /\ ~isMonitoring /\ ~pollInterval /\ microserviceProcess = 0) =>
          UNCHANGED <<isMonitoring, pollInterval, consecutiveErrors, worker,
                      redirectorStatus, suspended>>]_vars

\* C27 witness: stop() has run with a worker held (the worker is closing, its
\* force-kill timer pending); a second stop() can follow
C27_Witness ==
  /\ ~isMonitoring
  /\ ~pollInterval
  /\ microserviceProcess = 0
  /\ \E p \in killTimers : proc[p] = "term"
  /\ InFlight = 0
  /\ ENABLED Stop

\* C28: with no failures and fair scheduling, once every sample lies above
\* the threshold the system eventually has a worker running with the flag
\* Separated and stays so, and once every sample lies at or below it the
\* system eventually has no worker running with the flag Integrated and
\* stays so.
C28_ConvergesAndStays ==
  /\ [](sustained = "high" => <>[](~NoWorker /\ Separated))
  /\ [](sustained = "low" => <>[](NoWorker /\ Integrated))

\* C29: a set-redirector-status command with status 'active' or 'inactive'
\* sets the flag to the requested value and replies with previousStatus the
\* flag before the call and currentStatus the requested value; repeating the
\* command that was just answered leaves the flag as it is.
C29_StatusCommandSetsFlag ==
  [][\A status \in {"active", "inactive"} :
       PostStatus(status) =>
         /\ redirectorStatus' = status
         /\ statusReply'.code = 200
         /\ statusReply'.previousStatus = redirectorStatus
         /\ statusReply'.currentStatus = status
         /\ (statusReply.code = 200 /\ statusReply.currentStatus = status) =>
               UNCHANGED redirectorStatus]_vars

\* C29 witness: the 'inactive' command was answered with the flag already
\* 'inactive', that is, the command was issued twice
C29_Witness ==
  /\ statusReply.code = 200
  /\ statusReply.previousStatus = "inactive"
  /\ statusReply.currentStatus = "inactive"
  /\ Separated

\* C30: the health query reports 'integrated' exactly when the flag is
\* 'active' and 'separated' exactly when it is 'inactive', together with the
\* load counter, and changes neither the flag nor the counter.
C30_HealthReportsFlagAndLoad ==
  [][GetHealth =>
       /\ healthReply'.code = 200
       /\ healthReply'.status = "integrated" <=> redirectorStatus = "active"
       /\ healthReply'.status = "separated" <=> redirectorStatus = "inactive"
       /\ healthReply'.load = loadCounter
       /\ UNCHANGED <<redirectorStatus, loadCounter>>]_vars

\* C30 witness: the query was answered 'separated' with a load counted
\* before the flag went 'inactive'
C30_Witness ==
  /\ healthReply.code = 200
  /\ healthReply.status = "separated"
  /\ healthReply.load > 0
  /\ healthReply.load = loadCounter
  /\ Separated

\* C31: a getStatus() call returns isMonitoring, whether a handle is held,
\* and consecutiveErrors as they are, and changes no state of the supervisor.
C31_GetStatusReadOnly ==
  [][GetStatus =>
       /\ statusReport'.isMonitoring = isMonitoring
       /\ statusReport'.microserviceRunning <=> microserviceProcess # 0
       /\ statusReport'.consecutiveErrors = consecutiveErrors
       /\ UNCHANGED <<autopilot, redirectorStatus>>]_vars

\* C31 witness: getStatus() is returning from a stopped supervisor that
\* counted a failed query and still holds a worker handle
C31_Witness ==
  /\ statusReport # NoReply
  /\ ~statusReport.isMonitoring
  /\ statusReport.microserviceRunning
  /\ statusReport.consecutiveErrors > 0

\* C32: when the held worker has exited while the flag is Separated and
\* every later sample is at or below the threshold, the flag eventually
\* goes back to Integrated.
C32_RecoversFromWorkerExit ==
  [](( /\ sustained = "low"
       /\ Separated
       /\ microserviceProcess # 0
       /\ proc[microserviceProcess] = "dead" ) => <>Integrated)

\* C33: the force-kill timer armed when process p was stopped signals no
\* process other than p, and signals none while the supervisor is stopped.
C33_ForceKillOnlyItsTarget ==
  [][\A p \in Procs :
       ForceKill(p) =>
         /\ \A q \in Procs \ {p} : proc'[q] = proc[q]
         /\ ~isMonitoring => UNCHANGED proc]_vars

\* C34: at most one spawned worker process is alive (not yet exited) at any
\* time.
C34_AtMostOneWorker == Cardinality(LiveWorkers) <= 1

\* C35: consecutiveErrors stays between 0 and maxConsecutiveErrors.
C35_ErrorCountBounded ==
  consecutiveErrors >= 0 /\ consecutiveErrors <= maxConsecutiveErrors

\* C36: between operations isMonitoring is true exactly when the poll timer
\* is armed; start() sets both, stop() clears both, and no step other than
\* start() and stop() (called directly or by the fatal-error path) changes
\* either.
C36_MonitoringIffTimerArmed ==
  /\ [](isMonitoring <=> pollInterval)
  /\ [][ /\ (Start /\ ~isMonitoring) => (isMonitoring' /\ pollInterval')
         /\ Stop => (~isMonitoring' /\ ~pollInterval')
         /\ (isMonitoring' # isMonitoring \/ pollInterval' # pollInterval)
              => \/ Start
                 \/ Stop
                 \/ HealthFail /\ consecutiveErrors' >= maxConsecutiveErrors
       ]_vars

C36_Witness ==
  /\ ~isMonitoring
  /\ ~pollInterval
  /\ consecutiveErrors >= maxConsecutiveErrors
  /\ InFlight > 0

\* C37: a status command whose status is missing or is neither 'active' nor
\* 'inactive' is answered with 400 and leaves the flag unchanged; the flag
\* is 'active' initially and only ever holds 'active' or 'inactive'.
C37_BadStatusRejected ==
  /\ Integrated
  /\ [](redirectorStatus \in {"active", "inactive"})
  /\ [][\A status \in StatusBodies \ {"active", "inactive"} :
          PostStatus(status) =>
            /\ statusReply'.code = 400
            /\ UNCHANGED redirectorStatus]_vars

C37_Witness ==
  /\ statusReply.code = 400
  /\ Separated

====
